---- MODULE Spec2Model ----
(***************************************************************************)
(* State-machine model of the execution session controller of              *)
(* src/components/rightPanel/executionPanel/ExecutionPanel.tsx.            *)
(*                                                                         *)
(* The component's React state and its worker ref are the variables; every *)
(* event handler, and every continuation of an async handler between two   *)
(* awaits, is one atomic action (JavaScript runs each of them to           *)
(* completion on the single UI thread).  The NemoWorker behind             *)
(* createNemoWorker is not part of the source file: its request queue and  *)
(* its busy/idle notification channel are modelled from the worker         *)
(* contract of the specification.                                          *)
(***************************************************************************)
EXTENDS Naturals, Sequences, FiniteSets, TLC

\* Bounds of the model: the runProgram invocations of a behaviour, those of a
\* behaviour that also traces, and the trace requests a behaviour submits.
MaxRuns == 2
MaxTracedRuns == 1
MaxTraces == 2
\* The runs of the specification with the local inputs, and the most rows the
\* list of local inputs has there.
MaxInputRuns == 1
MaxInputs == 1
\* The runs of the specification with fairness.
MaxLiveRuns == 1

Runs == 1..MaxRuns
\* The worker created by run r is worker r.
Workers == Runs

\* A TypeScript `T | undefined` is a sequence of length at most one.
undefined == <<>>
Some(v) == <<v>>

\* enum TracingFormat
NONE == "NONE"
ASCII == "ASCII"
EVONNE == "EVONNE"

\* The program text of the store and the texts typed into the tracing field.
programText == "program"
Facts == {"a(1)"}

\* What the requests of worker w resolve to.  The results of different
\* workers differ (the program of the store can be edited between two runs),
\* so that a value in the session tells which worker it is from.
ProgramInfoOf(w) ==
    [outputPredicates |-> IF w % 2 = 1 THEN <<"q", "p">> ELSE <<"p">>,
     parsingDuration |-> w]
StartInfoOf(w) ==
    [initializationDuration |-> 4 + w, reasoningDuration |-> 11 + w]
FactCountsOf(w) ==
    [outputPredicates |-> IF w % 2 = 1 THEN [p |-> 2 + w, q |-> 0] ELSE [p |-> 2 + w],
     factsOfDerivedPredicates |-> 2 + w]

PipelineSteps == {"parseProgram", "markDefaultExports", "start", "getCounts"}
TraceKinds == {"parseAndTraceFactAscii", "parseAndTraceFactGraphML"}

\* What a request can reject with: an Error object (name and message) or a
\* thrown string (no name).
Thrown(kind) ==
    CASE kind = "createNemoWorker" ->
            { [name |-> "Error", message |-> "worker failed to load"] }
      [] kind = "parseProgram" ->
            { [name |-> "ParseError", message |-> "unexpected token"],
              [name |-> "", message |-> "unexpected token"] }
      [] kind = "markDefaultExports" ->
            { [name |-> "EngineError", message |-> ""] }
      [] kind = "start" ->
            { [name |-> "ExecutionError", message |-> "resource not found"] }
      [] kind = "getCounts" ->
            { [name |-> "EngineError", message |-> "internal"] }
      [] OTHER ->
            { [name |-> "TraceError", message |-> "fact not derivable"] }

\* (error as any).toString(): Error.prototype.toString for an Error object,
\* the string itself for a thrown string.
toString(error) ==
    IF error.name = "" THEN error.message
    ELSE IF error.message = "" THEN error.name
    ELSE error.name \o ": " \o error.message

\* The text a successful trace request resolves to.
TraceOutput(kind, fact) ==
    IF kind = "parseAndTraceFactAscii" THEN "ascii:" \o fact ELSE "graphml:" \o fact

\* The files the file chooser offers and the texts typed into a resource field.
Files == {[name |-> "a.csv", size |-> 1], [name |-> "b.csv", size |-> 2048]}
Resources == {"a.csv", "b.csv"}

\* Object.fromEntries: the object of a list of [key, value] pairs, where a
\* later pair replaces an earlier pair of the same key.
fromEntries(entries) ==
    [k \in {entries[i][1] : i \in DOMAIN entries} |->
        entries[CHOOSE i \in DOMAIN entries :
                    /\ entries[i][1] = k
                    /\ \A j \in DOMAIN entries : entries[j][1] = k => j <= i][2]]

\* The argument of worker.start (lines 110-114): the rows as [resource, file]
\* pairs, those with a file, as an object.
StartResources(rows) ==
    fromEntries(SelectSeq([i \in DOMAIN rows |-> <<rows[i].resource, rows[i].file>>],
                          LAMBDA input : input[2] # undefined))

VARIABLES
    \* the component's state
    workerRef, programInfo, parseError, initializationDuration, reasoningDuration,
    factCounts, isProgramRunning, isWorkerActive,
    tracingResult, tracingFormat,
    \* the local inputs
    inputs,
    \* the runProgram invocations: where each stands, and the `inputs` its
    \* closure holds (those of the render whose Run button was clicked) until
    \* it has read them or ended
    pc, captured, nRuns, nTraces,
    \* the workers: whether createNemoWorker returned them, whether stop() was
    \* called on them, their pending requests
    created, terminated, queue,
    \* history: what the claims speak about
    discarded, alone, failed, last

session == <<programInfo, parseError, initializationDuration, reasoningDuration,
             factCounts, isProgramRunning>>
tracing == <<tracingResult, tracingFormat>>
workerVars == <<created, terminated, queue>>
history == <<discarded, alone, failed>>
vars == <<workerRef, session, isWorkerActive, tracing, inputs, pc, captured, nRuns,
          nTraces, workerVars, history, last>>

\* The phase the panel shows: the spinner and Stop button while
\* isProgramRunning, the Errors block when parseError is set, the enabled
\* result tabs once factCounts is set.
phase ==
    IF isProgramRunning THEN "Running"
    ELSE IF parseError # undefined THEN "Failed"
    ELSE IF factCounts # undefined THEN "Ready"
    ELSE "Idle"

InFlight(r) == pc[r] \notin {"unused", "done"}


Init ==
    /\ workerRef = undefined
    /\ programInfo = undefined
    /\ parseError = undefined
    /\ initializationDuration = 0
    /\ reasoningDuration = 0
    /\ factCounts = undefined
    /\ isProgramRunning = FALSE
    /\ isWorkerActive = FALSE
    /\ tracingResult = undefined
    /\ tracingFormat = NONE
    /\ inputs = <<>>
    /\ pc = [r \in Runs |-> "unused"]
    /\ captured = [r \in Runs |-> <<>>]
    /\ nRuns = 0
    /\ nTraces = 0
    /\ created = [w \in Workers |-> FALSE]
    /\ terminated = [w \in Workers |-> FALSE]
    /\ queue = [w \in Workers |-> <<>>]
    /\ discarded = [r \in Runs |-> FALSE]
    /\ alone = [r \in Runs |-> FALSE]
    /\ failed = [r \in Runs |-> undefined]
    /\ last = "init"

----------------------------------------------------------------------------
\* The worker: a single-threaded server of its requests in arrival order.
\* stop() is fire-and-forget and best-effort: a worker that was stopped may
\* still answer what it was handed, or never answer (no action is forced).

Request(kind, arg) == [kind |-> kind, arg |-> arg]

\* The worker is mid-computation while it has a request to answer.
Busy(w) == queue[w] # <<>>

\* The oldest request of worker w is of the given kind.
Serving(w, kind) == queue[w] # <<>> /\ Head(queue[w]).kind = kind

\* Worker w is handed a request.
Submit(w, req) ==
    queue' = [queue EXCEPT ![w] = Append(queue[w], req)]

\* The answer to the oldest request of worker w arrives, and the continuation
\* it resumes submits the next request.
AnswerAndSubmit(w, req) ==
    queue' = [queue EXCEPT ![w] = Append(Tail(queue[w]), req)]

\* The answer to the oldest request of worker w arrives.
AnswerOnly(w) ==
    queue' = [queue EXCEPT ![w] = Tail(queue[w])]

\* setIsWorkerActive together with a write of isProgramRunning.
setIsWorkerActive_AlsoRunning(active) ==
    /\ isWorkerActive' = active
    /\ isProgramRunning' = active
    /\ UNCHANGED <<workerRef, programInfo, parseError, initializationDuration,
                   reasoningDuration, factCounts, tracing>>

\* The callback handed to createNemoWorker (line 101) is the setter of
\* isWorkerActive (line 69): it writes that field of the component and no other.
setIsWorkerActive(active) ==
    /\ isWorkerActive' = active
    /\ UNCHANGED <<workerRef, session, tracing>>

\* The callback handed to createNemoWorker (line 101), setIsWorkerActive, is
\* called with the busy state of worker w.  The call comes some time after
\* the worker's state changed, and carries the state the worker is in by then.
Notify(w) ==
    /\ created[w]
    /\ isWorkerActive # Busy(w)
    /\ setIsWorkerActive(Busy(w))
    /\ last' = "other"
    /\ UNCHANGED <<inputs, captured, pc, nRuns, nTraces, created, terminated, queue,
                   history>>

----------------------------------------------------------------------------
\* ReleaseWorker without line 85: the stopped worker stays in workerRef.
ReleaseWorker_KeepsRef ==
    /\ terminated' = IF workerRef # undefined
                     THEN [terminated EXCEPT ![workerRef[1]] = TRUE]
                     ELSE terminated
    /\ workerRef' = workerRef

\* stopProgram, lines 82-86: the held worker is stopped and let go.
ReleaseWorker ==
    /\ terminated' = IF workerRef # undefined
                     THEN [terminated EXCEPT ![workerRef[1]] = TRUE]
                     ELSE terminated
    /\ workerRef' = undefined

\* ResetSession without line 91: the fact counts survive a stop.
ResetSession_KeepsFactCounts ==
    /\ programInfo' = undefined
    /\ parseError' = undefined
    /\ initializationDuration' = 0
    /\ reasoningDuration' = 0
    /\ factCounts' = factCounts

\* ResetSession without lines 89-90: the timings survive a stop.
ResetSession_KeepsTimings ==
    /\ programInfo' = undefined
    /\ parseError' = undefined
    /\ initializationDuration' = initializationDuration
    /\ reasoningDuration' = reasoningDuration
    /\ factCounts' = undefined

\* ResetSession without line 88: the error survives a stop.
ResetSession_KeepsError ==
    /\ programInfo' = undefined
    /\ parseError' = parseError
    /\ initializationDuration' = 0
    /\ reasoningDuration' = 0
    /\ factCounts' = undefined

\* stopProgram, lines 87-91.
ResetSession ==
    /\ programInfo' = undefined
    /\ parseError' = undefined
    /\ initializationDuration' = 0
    /\ reasoningDuration' = 0
    /\ factCounts' = undefined

\* Every pipeline in flight when stopProgram runs is discarded.
Discard ==
    discarded' = [r \in Runs |-> discarded[r] \/ InFlight(r)]

\* The Stop button (lines 80-93).
StopProgram ==
    /\ ReleaseWorker
    /\ ResetSession
    /\ isProgramRunning' = FALSE
    /\ Discard
    /\ alone' = [r \in Runs |-> FALSE]
    /\ last' = "stopProgram"
    /\ UNCHANGED <<inputs, captured, isWorkerActive, tracing, pc, nRuns, nTraces,
                   created, queue, failed>>

\* runProgram up to its first await (lines 96-101).
RunProgram ==
    /\ nRuns < MaxRuns
    /\ LET r == nRuns + 1 IN
        /\ ReleaseWorker
        /\ ResetSession
        /\ isProgramRunning' = TRUE
        /\ Discard
        /\ pc' = [pc EXCEPT ![r] = "createNemoWorker"]
        /\ captured' = [captured EXCEPT ![r] = inputs]
        /\ nRuns' = r
        /\ alone' = [x \in Runs |-> x = r /\ \A y \in Runs : ~InFlight(y)]
        /\ last' = "runProgram"
    /\ UNCHANGED <<inputs, isWorkerActive, tracing, nTraces, created, queue, failed>>

\* Caught without line 128: the run is over and the spinner stays.
Caught_StaysRunning(r, step, error) ==
    /\ parseError' = Some(toString(error))
    /\ isProgramRunning' = isProgramRunning
    /\ pc' = [pc EXCEPT ![r] = "done"]
    /\ failed' = [failed EXCEPT ![r] = Some([step |-> step, error |-> error])]

\* runProgram's catch block and the statement after it (lines 120-128).
Caught(r, step, error) ==
    /\ parseError' = Some(toString(error))
    /\ isProgramRunning' = FALSE
    /\ pc' = [pc EXCEPT ![r] = "done"]
    /\ failed' = [failed EXCEPT ![r] = Some([step |-> step, error |-> error])]

\* createNemoWorker resolves (lines 101-105).
WorkerCreated(r) ==
    /\ pc[r] = "createNemoWorker"
    /\ created' = [created EXCEPT ![r] = TRUE]
    /\ workerRef' = Some(r)
    /\ Submit(r, Request("parseProgram", programText))
    /\ pc' = [pc EXCEPT ![r] = "parseProgram"]
    /\ last' = "other"
    /\ UNCHANGED <<inputs, captured, session, isWorkerActive, tracing, nRuns, nTraces,
                   terminated, history>>

\* createNemoWorker rejects (lines 101, 120-128).
WorkerNotCreated(r) ==
    /\ pc[r] = "createNemoWorker"
    /\ \E error \in Thrown("createNemoWorker") : Caught(r, "createNemoWorker", error)
    /\ captured' = [captured EXCEPT ![r] = <<>>]
    /\ last' = "other"
    /\ UNCHANGED <<inputs, workerRef, programInfo, initializationDuration, reasoningDuration,
                   factCounts, isWorkerActive, tracing, nRuns, nTraces, workerVars,
                   discarded, alone>>

\* parseProgram resolves (lines 105-107).
ParseDone(r) ==
    /\ pc[r] = "parseProgram"
    /\ Serving(r, "parseProgram")
    /\ programInfo' = Some(ProgramInfoOf(r))
    /\ AnswerAndSubmit(r, Request("markDefaultExports", ""))
    /\ pc' = [pc EXCEPT ![r] = "markDefaultExports"]
    /\ last' = "other"
    /\ UNCHANGED <<inputs, captured, workerRef, parseError, initializationDuration, reasoningDuration,
                   factCounts, isProgramRunning, isWorkerActive, tracing, nRuns,
                   nTraces, created, terminated, history>>

\* MarkDone with the inputs of the latest render instead of the closure's.
MarkDone_CurrentInputs(r) ==
    /\ pc[r] = "markDefaultExports"
    /\ Serving(r, "markDefaultExports")
    /\ AnswerAndSubmit(r, Request("start", StartResources(inputs)))
    /\ pc' = [pc EXCEPT ![r] = "start"]
    /\ captured' = [captured EXCEPT ![r] = <<>>]
    /\ last' = "other"
    /\ UNCHANGED <<inputs, workerRef, session, isWorkerActive, tracing, nRuns, nTraces,
                   created, terminated, history>>

\* MarkDone going on with getCounts instead of start.
MarkDone_SkipsStart(r) ==
    /\ pc[r] = "markDefaultExports"
    /\ Serving(r, "markDefaultExports")
    /\ AnswerAndSubmit(r, Request("getCounts", ""))
    /\ pc' = [pc EXCEPT ![r] = "getCounts"]
    /\ captured' = [captured EXCEPT ![r] = <<>>]
    /\ last' = "other"
    /\ UNCHANGED <<inputs, workerRef, session, isWorkerActive, tracing, nRuns, nTraces,
                   created, terminated, history>>

\* markDefaultExports resolves (lines 107-115).
MarkDone(r) ==
    /\ pc[r] = "markDefaultExports"
    /\ Serving(r, "markDefaultExports")
    /\ AnswerAndSubmit(r, Request("start", StartResources(captured[r])))
    /\ pc' = [pc EXCEPT ![r] = "start"]
    /\ captured' = [captured EXCEPT ![r] = <<>>]
    /\ last' = "other"
    /\ UNCHANGED <<inputs, workerRef, session, isWorkerActive, tracing, nRuns, nTraces,
                   created, terminated, history>>

\* start resolves (lines 109-119).
StartDone(r) ==
    /\ pc[r] = "start"
    /\ Serving(r, "start")
    /\ initializationDuration' = StartInfoOf(r).initializationDuration
    /\ reasoningDuration' = StartInfoOf(r).reasoningDuration
    /\ AnswerAndSubmit(r, Request("getCounts", ""))
    /\ pc' = [pc EXCEPT ![r] = "getCounts"]
    /\ last' = "other"
    /\ UNCHANGED <<inputs, captured, workerRef, programInfo, parseError, factCounts, isProgramRunning,
                   isWorkerActive, tracing, nRuns, nTraces, created, terminated,
                   history>>

\* CountsDone without line 128: the spinner is never taken down.
CountsDone_StaysRunning(r) ==
    /\ pc[r] = "getCounts"
    /\ Serving(r, "getCounts")
    /\ factCounts' = Some(FactCountsOf(r))
    /\ isProgramRunning' = isProgramRunning
    /\ AnswerOnly(r)
    /\ pc' = [pc EXCEPT ![r] = "done"]
    /\ last' = "other"
    /\ UNCHANGED <<inputs, captured, workerRef, programInfo, parseError, initializationDuration,
                   reasoningDuration, isWorkerActive, tracing, nRuns, nTraces,
                   created, terminated, history>>

\* getCounts resolves (lines 119-128).
CountsDone(r) ==
    /\ pc[r] = "getCounts"
    /\ Serving(r, "getCounts")
    /\ factCounts' = Some(FactCountsOf(r))
    /\ isProgramRunning' = FALSE
    /\ AnswerOnly(r)
    /\ pc' = [pc EXCEPT ![r] = "done"]
    /\ last' = "other"
    /\ UNCHANGED <<inputs, captured, workerRef, programInfo, parseError, initializationDuration,
                   reasoningDuration, isWorkerActive, tracing, nRuns, nTraces,
                   created, terminated, history>>

\* The outstanding pipeline request of run r rejects (lines 120-128).
StepFailed(r) ==
    /\ pc[r] \in PipelineSteps
    /\ Serving(r, pc[r])
    /\ \E error \in Thrown(pc[r]) : Caught(r, pc[r], error)
    /\ AnswerOnly(r)
    /\ captured' = [captured EXCEPT ![r] = <<>>]
    /\ last' = "other"
    /\ UNCHANGED <<inputs, workerRef, programInfo, initializationDuration, reasoningDuration,
                   factCounts, isWorkerActive, tracing, nRuns, nTraces, created,
                   terminated, discarded, alone>>

----------------------------------------------------------------------------
\* A number inside a template literal: its decimal digits.
Digit(d) == SubSeq("0123456789", d + 1, d + 1)
RECURSIVE NumberToString(_)
NumberToString(n) ==
    IF n < 10 THEN Digit(n) ELSE NumberToString(n \div 10) \o Digit(n % 10)

\* The title of the tab of an output predicate (lines 371-376).
tabTitle(predicate) ==
    predicate \o
        (IF factCounts # undefined /\ predicate \in DOMAIN factCounts[1].outputPredicates
         THEN " (" \o NumberToString(factCounts[1].outputPredicates[predicate]) \o ")"
         ELSE "")

----------------------------------------------------------------------------
\* The handlers of the local inputs leave everything but `inputs` alone.
InputsOnly ==
    /\ last' = "other"
    /\ UNCHANGED <<workerRef, session, isWorkerActive, tracing, pc, captured, nRuns,
                   nTraces, workerVars, history>>

\* Typing `value` into the resource field of row inputIndex (lines 208-215).
ChangeResource(inputIndex, value) ==
    /\ inputIndex \in DOMAIN inputs
    /\ inputs' = [inputs EXCEPT ![inputIndex].resource = value]
    /\ InputsOnly

\* Choosing the files fileList for row inputIndex (lines 224-237).
ChangeFile(inputIndex, fileList) ==
    /\ inputIndex \in DOMAIN inputs
    /\ inputs' = IF Len(fileList) = 0 THEN inputs
                  ELSE [inputs EXCEPT ![inputIndex].file = Some(fileList[1])]
    /\ InputsOnly

\* The x button of row inputIndex (lines 244-248).
RemoveInput(inputIndex) ==
    /\ inputIndex \in DOMAIN inputs
    /\ inputs' = SubSeq(inputs, 1, inputIndex - 1)
                    \o SubSeq(inputs, inputIndex + 1, Len(inputs))
    /\ InputsOnly

\* "Add local file" with the files fileList chosen (lines 257-272).
AddLocalFile(fileList) ==
    /\ Len(inputs) < MaxInputs
    /\ inputs' = IF Len(fileList) = 0 THEN inputs
                  ELSE Append(inputs, [resource |-> fileList[1].name,
                                       file |-> Some(fileList[1])])
    /\ InputsOnly

\* What the file chooser hands to its callback: no file or the chosen one.
FileLists == {<<>>} \cup {<<file>> : file \in Files}

----------------------------------------------------------------------------
\* isTracingCurrentlyAllowed without its second conjunct.
isTracingCurrentlyAllowed_IgnoresActive == programInfo # undefined

\* lines 131-133
isTracingCurrentlyAllowed == programInfo # undefined /\ ~isWorkerActive

\* The guard of traceFactAscii and traceFactEvonne (lines 136, 153).
TraceGuard == isTracingCurrentlyAllowed /\ workerRef # undefined

\* traceFactAscii and traceFactEvonne up to their await, with the text of the
\* tracing field (tracingFactText).
TraceFact(kind, tracingFactText) ==
    /\ IF TraceGuard
       THEN /\ nTraces < MaxTraces
            /\ nTraces' = nTraces + 1
            /\ Submit(workerRef[1], Request(kind, tracingFactText))
            /\ last' = "traceAccepted"
       ELSE /\ UNCHANGED <<nTraces, queue>>
            /\ last' = "traceRejected"
    /\ UNCHANGED <<inputs, captured, workerRef, session, isWorkerActive, tracing, pc, nRuns,
                   created, terminated, history>>

\* lines 135-143
traceFactAscii == \E text \in Facts : TraceFact("parseAndTraceFactAscii", text)
\* lines 152-160
traceFactEvonne == \E text \in Facts : TraceFact("parseAndTraceFactGraphML", text)

FormatOf(kind) == IF kind = "parseAndTraceFactAscii" THEN ASCII ELSE EVONNE

\* The trace request at the head of worker w's queue resolves
\* (lines 144-145, 161-162).
TraceDone(w) ==
    /\ queue[w] # <<>>
    /\ Head(queue[w]).kind \in TraceKinds
    /\ tracingFormat' = FormatOf(Head(queue[w]).kind)
    /\ tracingResult' = Some(TraceOutput(Head(queue[w]).kind, Head(queue[w]).arg))
    /\ AnswerOnly(w)
    /\ last' = "traceDone"
    /\ UNCHANGED <<inputs, captured, workerRef, session, isWorkerActive, pc, nRuns, nTraces,
                   created, terminated, history>>

\* TraceFailed without setTracingFormat(TracingFormat.NONE).
TraceFailed_KeepsFormat(w) ==
    /\ queue[w] # <<>>
    /\ Head(queue[w]).kind \in TraceKinds
    /\ \E error \in Thrown(Head(queue[w]).kind) :
        /\ tracingFormat' = tracingFormat
        /\ tracingResult' = Some(toString(error))
    /\ AnswerOnly(w)
    /\ last' = "traceFailed"
    /\ UNCHANGED <<inputs, captured, workerRef, session, isWorkerActive, pc, nRuns, nTraces,
                   created, terminated, history>>

\* The trace request at the head of worker w's queue rejects
\* (lines 146-149, 163-166).
TraceFailed(w) ==
    /\ queue[w] # <<>>
    /\ Head(queue[w]).kind \in TraceKinds
    /\ \E error \in Thrown(Head(queue[w]).kind) :
        /\ tracingFormat' = NONE
        /\ tracingResult' = Some(toString(error))
    /\ AnswerOnly(w)
    /\ last' = "traceFailed"
    /\ UNCHANGED <<inputs, captured, workerRef, session, isWorkerActive, pc, nRuns, nTraces,
                   created, terminated, history>>

----------------------------------------------------------------------------
\* The session's life cycle: the Run and Stop buttons, the continuations of
\* runProgram and the worker's notifications.
Lifecycle ==
    \/ StopProgram
    \/ RunProgram
    \/ \E r \in Runs : WorkerCreated(r)
    \/ \E r \in Runs : WorkerNotCreated(r)
    \/ \E r \in Runs : ParseDone(r)
    \/ \E r \in Runs : MarkDone(r)
    \/ \E r \in Runs : StartDone(r)
    \/ \E r \in Runs : CountsDone(r)
    \/ \E r \in Runs : StepFailed(r)
    \/ \E w \in Workers : Notify(w)

Spec == Init /\ [][Lifecycle]_vars

\* The life cycle where what is awaited comes: createNemoWorker resolves or
\* rejects, and a worker on which stop() was not called answers its requests.
LiveRunProgram == nRuns < MaxLiveRuns /\ RunProgram

Live ==
    \/ StopProgram
    \/ LiveRunProgram
    \/ \E r \in Runs : WorkerCreated(r)
    \/ \E r \in Runs : WorkerNotCreated(r)
    \/ \E r \in Runs : ParseDone(r)
    \/ \E r \in Runs : MarkDone(r)
    \/ \E r \in Runs : StartDone(r)
    \/ \E r \in Runs : CountsDone(r)
    \/ \E r \in Runs : StepFailed(r)
    \/ \E w \in Workers : Notify(w)

Answered(r) ==
    /\ ~terminated[r]
    /\ ParseDone(r) \/ MarkDone(r) \/ StartDone(r) \/ CountsDone(r) \/ StepFailed(r)

SpecLive ==
    /\ Init
    /\ [][Live]_vars
    /\ \A r \in Runs : WF_vars(WorkerCreated(r) \/ WorkerNotCreated(r))
    /\ \A r \in Runs : WF_vars(Answered(r))

\* The runs of the panel together with the handlers of the local inputs.
InputsRunProgram == nRuns < MaxInputRuns /\ RunProgram

Inputs ==
    \/ InputsRunProgram
    \/ \E r \in Runs : WorkerCreated(r)
    \/ \E r \in Runs : WorkerNotCreated(r)
    \/ \E r \in Runs : ParseDone(r)
    \/ \E r \in Runs : MarkDone(r)
    \/ \E r \in Runs : StartDone(r)
    \/ \E r \in Runs : CountsDone(r)
    \/ \E r \in Runs : StepFailed(r)
    \/ \E inputIndex \in 1..MaxInputs, value \in Resources : ChangeResource(inputIndex, value)
    \/ \E inputIndex \in 1..MaxInputs, fileList \in FileLists : ChangeFile(inputIndex, fileList)
    \/ \E inputIndex \in 1..MaxInputs : RemoveInput(inputIndex)
    \/ \E fileList \in FileLists : AddLocalFile(fileList)

SpecInputs == Init /\ [][Inputs]_vars

\* The life cycle together with the tracing panel.
TracedRunProgram == nRuns < MaxTracedRuns /\ RunProgram

Tracing ==
    \/ StopProgram
    \/ TracedRunProgram
    \/ \E r \in Runs : WorkerCreated(r)
    \/ \E r \in Runs : WorkerNotCreated(r)
    \/ \E r \in Runs : ParseDone(r)
    \/ \E r \in Runs : MarkDone(r)
    \/ \E r \in Runs : StartDone(r)
    \/ \E r \in Runs : CountsDone(r)
    \/ \E r \in Runs : StepFailed(r)
    \/ \E w \in Workers : Notify(w)
    \/ traceFactAscii
    \/ traceFactEvonne
    \/ \E w \in Workers : TraceDone(w)
    \/ \E w \in Workers : TraceFailed(w)

SpecTracing == Init /\ [][Tracing]_vars

----------------------------------------------------------------------------
\* The claims.

\* C1: at most one WorkerHandle is live at any instant: every worker that
\* createNemoWorker has returned and that has not been stopped is the one the
\* controller holds in workerRef.
C1_AtMostOneLiveWorker ==
    \A w \in Workers : (created[w] /\ ~terminated[w]) => workerRef = Some(w)

\* C2: once stopProgram has run (from the Stop button or at the start of a
\* later runProgram), no continuation of a pipeline that was in flight then
\* writes programInfo, parseError, the timings, factCounts or isProgramRunning.
C2_DiscardedPipelineWritesNothing ==
    [][\A r \in Runs : (discarded[r] /\ pc'[r] # pc[r]) => UNCHANGED session]_vars

\* C3: a trace request is only ever handed to a worker that has nothing to
\* answer: no worker holds a trace request behind another request.
C3_NoTraceToBusyWorker ==
    \A w \in Workers : \A i \in 1..Len(queue[w]) :
        queue[w][i].kind \in TraceKinds => i = 1

\* The precondition of tracing, as the specification states it.
TracePrecondition == programInfo # undefined /\ ~isWorkerActive

\* C4: a call of traceFactAscii or traceFactEvonne submits its request if and
\* only if programInfo is populated and isWorkerActive is false.
C4_AcceptedIffPrecondition ==
    [][/\ last' = "traceAccepted" => TracePrecondition
       /\ last' = "traceRejected" => ~TracePrecondition]_vars

\* C5: a trace call made while isWorkerActive is true or programInfo is
\* absent hands no request to any worker and leaves tracingResult and
\* tracingFormat as they were.
C5_RejectedSynchronously ==
    [][(last' \in {"traceAccepted", "traceRejected"} /\ ~TracePrecondition)
          => (last' = "traceRejected" /\ UNCHANGED <<queue, tracingResult, tracingFormat>>)]_vars

\* C5's case: a trace call was turned down because the worker was signalled
\* busy, with a program parsed and a worker held.
C5_Witness ==
    /\ last = "traceRejected"
    /\ isWorkerActive
    /\ programInfo # undefined
    /\ workerRef # undefined

\* C6: right after stopProgram, whatever the state it was called in, the phase
\* is Idle, no worker is held, programInfo, factCounts and parseError are
\* absent and both timings are 0; stopProgram can always run, whatever the
\* workers still have to answer.
C6_StopResets ==
    /\ ENABLED StopProgram
    /\ last = "stopProgram" =>
        /\ phase = "Idle"
        /\ workerRef = undefined
        /\ programInfo = undefined
        /\ factCounts = undefined
        /\ parseError = undefined
        /\ initializationDuration = 0
        /\ reasoningDuration = 0

\* C6's case: stopProgram has run on a session that was Ready, and on one
\* whose worker still has a request to answer.
C6_Witness ==
    /\ last = "stopProgram"
    /\ \E r \in Runs : pc[r] = "done" /\ failed[r] = undefined /\ terminated[r]
    /\ \E w \in Workers : terminated[w] /\ Busy(w)

\* C7: after stopProgram, and after runProgram has begun, tracingFormat is NONE
\* and no trace result is stored.
C7_TraceInvalidated ==
    last \in {"stopProgram", "runProgram"} =>
        (tracingFormat = NONE /\ tracingResult = undefined)

\* Run r ran with no other pipeline in flight and no stopProgram or runProgram
\* since it began, and it is over.
Uninterleaved(r) == pc[r] = "done" /\ alone[r]

FailedAt(r, step) == failed[r] # undefined /\ failed[r][1].step = step

\* C8: a run whose start request fails, with no other run or stop
\* interleaved, ends Failed, with parseError the failure's description,
\* programInfo as parseProgram returned it, factCounts absent and both timings 0.
C8_StartFailure ==
    \A r \in Runs : (Uninterleaved(r) /\ FailedAt(r, "start")) =>
        /\ phase = "Failed"
        /\ parseError = Some(toString(failed[r][1].error))
        /\ programInfo = Some(ProgramInfoOf(r))
        /\ factCounts = undefined
        /\ initializationDuration = 0
        /\ reasoningDuration = 0

\* C8's case: the start request of a run fails after an earlier run had
\* succeeded and left its timings and counts in the session.
C8_Witness ==
    \E r, q \in Runs :
        /\ Uninterleaved(r) /\ FailedAt(r, "start")
        /\ q < r /\ pc[q] = "done" /\ failed[q] = undefined

C10_SuccessfulRun ==
    \A r \in Runs : (Uninterleaved(r) /\ failed[r] = undefined) =>
        /\ phase = "Ready"
        /\ programInfo = Some(ProgramInfoOf(r))
        /\ initializationDuration = StartInfoOf(r).initializationDuration
        /\ reasoningDuration = StartInfoOf(r).reasoningDuration
        /\ factCounts = Some(FactCountsOf(r))
        /\ parseError = undefined

\* C10's case: a run succeeds after an earlier run had failed and left its
\* error in the session.
C10_Witness ==
    \E r, q \in Runs :
        /\ Uninterleaved(r) /\ failed[r] = undefined
        /\ q < r /\ pc[q] = "done" /\ failed[q] # undefined

\* What claim C11 calls the bindings of the rows: a resource is bound iff a
\* row with a file names it, and it is bound to the file of the last such row.
IsBindingsOf(resources, rows) ==
    LET present == {i \in DOMAIN rows : rows[i].file # undefined} IN
    /\ DOMAIN resources = {rows[i].resource : i \in present}
    /\ \A i \in present :
        \/ resources[rows[i].resource] = rows[i].file
        \/ \E j \in present : j > i /\ rows[j].resource = rows[i].resource

\* C11: what a run submits with start is the local inputs as they were when
\* runProgram was invoked, those with a file: the run holds the inputs of that
\* moment, adding, changing or removing a row afterwards changes neither what
\* the run holds nor a request already submitted, and the start request carries
\* the bindings of what the run holds.
C11_StartSubmitsInputsOfInvocation ==
    /\ [][\A r \in Runs : (pc[r] = "unused" /\ pc'[r] # "unused") => captured'[r] = inputs]_vars
    /\ [][inputs' # inputs => UNCHANGED <<captured, queue>>]_vars
    /\ [][\A r \in Runs : (pc[r] = "markDefaultExports" /\ pc'[r] = "start")
            => /\ queue'[r] # <<>>
               /\ queue'[r][Len(queue'[r])].kind = "start"
               /\ IsBindingsOf(queue'[r][Len(queue'[r])].arg, captured[r])]_vars

\* A start request is outstanding that binds a resource, and the local inputs
\* have been edited since its run was invoked.
C11_Witness ==
    \E r \in Runs :
        /\ pc[r] = "start"
        /\ queue[r] # <<>>
        /\ Head(queue[r]).kind = "start"
        /\ DOMAIN Head(queue[r]).arg # {}
        /\ ~IsBindingsOf(Head(queue[r]).arg, inputs)

\* The trace request at the head of worker w's queue has been answered.
TraceAnswered(w) ==
    /\ queue[w] # <<>>
    /\ Head(queue[w]).kind \in TraceKinds
    /\ queue'[w] = Tail(queue[w])

\* C12: when an accepted trace request fails, the tracing format becomes NONE
\* and the tracing result the description of the error; when it succeeds, the
\* format becomes the requested one and the result the worker's output.  The
\* outcome replaces whatever was stored before, and the session's fields and
\* the worker reference stay as they are.
C12_TraceOutcomeStored ==
    [][\A w \in Workers : TraceAnswered(w) =>
        LET request == Head(queue[w]) IN
        /\ UNCHANGED <<session, workerRef>>
        /\ last' \in {"traceDone", "traceFailed"}
        /\ last' = "traceDone" =>
                /\ tracingFormat' = FormatOf(request.kind)
                /\ tracingResult' = Some(TraceOutput(request.kind, request.arg))
        /\ last' = "traceFailed" =>
                /\ tracingFormat' = NONE
                /\ \E error \in Thrown(request.kind) :
                        tracingResult' = Some(toString(error))]_vars

\* Two trace requests were accepted and both are answered, the later one
\* with a failure.
C12_Witness ==
    /\ nTraces = 2
    /\ \A w \in Workers : \A i \in DOMAIN queue[w] : queue[w][i].kind \notin TraceKinds
    /\ last = "traceFailed"
    /\ tracingFormat = NONE
    /\ tracingResult = Some("TraceError: fact not derivable")

\* C13: stopProgram is idempotent.  Right after a stopProgram, another
\* stopProgram changes nothing (the session's fields and the worker reference
\* are what the first one left), and it finds no worker in workerRef to stop.
C13_StopIdempotent ==
    last = "stopProgram" =>
        /\ ~ENABLED <<StopProgram>>_vars
        /\ workerRef = undefined

\* stopProgram has just stopped the worker of a run that had results.
C13_Witness ==
    /\ last = "stopProgram"
    /\ \E w \in Workers : terminated[w] /\ pc[w] = "done"
    /\ ENABLED StopProgram

\* C14: a busy or idle notification of a worker changes isWorkerActive and
\* nothing else of the panel: the session's fields (so the phase), the worker
\* reference and the tracing result and format stay as they are.
C14_NotificationChangesOnlyBusy ==
    [][isWorkerActive' # isWorkerActive
        => /\ UNCHANGED <<workerRef, session, tracing, inputs>>
           /\ phase' = phase]_vars

\* A busy notification has arrived while a run is between two steps of its
\* pipeline and the program information is set.
C14_Witness ==
    /\ isWorkerActive
    /\ phase = "Running"
    /\ programInfo # undefined
    /\ \E r \in Runs : pc[r] = "start"

\* C15: the tab of every output predicate of programInfo is titled with the
\* predicate's name alone while factCounts is absent, and with the name
\* followed by the predicate's count in parentheses once factCounts is there.
C15_TabTitles ==
    programInfo # undefined =>
        \A i \in DOMAIN programInfo[1].outputPredicates :
            LET predicate == programInfo[1].outputPredicates[i] IN
            IF factCounts = undefined
            THEN tabTitle(predicate) = predicate
            ELSE /\ predicate \in DOMAIN factCounts[1].outputPredicates
                 /\ tabTitle(predicate) =
                        predicate \o " (" \o
                        NumberToString(factCounts[1].outputPredicates[predicate]) \o ")"

\* The order of the steps of runProgram.
StepOrder ==
    {<<"unused", "createNemoWorker">>, <<"createNemoWorker", "parseProgram">>,
     <<"parseProgram", "markDefaultExports">>, <<"markDefaultExports", "start">>,
     <<"start", "getCounts">>, <<"getCounts", "done">>}

\* The pipeline requests among the pending requests of worker w.
PipelineRequests(w) == SelectSeq(queue[w], LAMBDA request : request.kind \in PipelineSteps)

\* C16: a run issues its requests in the order createNemoWorker, parseProgram,
\* markDefaultExports, start, getCounts, each one only when the one before it
\* has succeeded (a failure ends the run), and has at most one of them
\* outstanding: the one of the step it stands at.
C16_RequestsInOrder ==
    /\ [][\A r \in Runs : pc'[r] # pc[r] =>
            \/ <<pc[r], pc'[r]>> \in StepOrder /\ failed'[r] = undefined
            \/ InFlight(r) /\ pc'[r] = "done" /\ failed'[r] # undefined]_vars
    /\ [](\A r \in Runs :
            IF pc[r] \in PipelineSteps
            THEN /\ Len(PipelineRequests(r)) = 1
                 /\ PipelineRequests(r)[1].kind = pc[r]
            ELSE PipelineRequests(r) = <<>>)

\* A run has come through all its steps to its last request.
C16_Witness ==
    \E r \in Runs :
        /\ pc[r] = "getCounts"
        /\ PipelineRequests(r) = <<Request("getCounts", "")>>
        /\ initializationDuration = StartInfoOf(r).initializationDuration

\* C17: while the run invoked last is still in flight and stopProgram has not
\* been called since its invocation, the panel is in phase Running; the end of
\* an earlier run does not take it out of that phase.
C17_LatestRunKeepsRunning ==
    (nRuns > 0 /\ InFlight(nRuns) /\ ~discarded[nRuns]) => phase = "Running"

\* The worker that produced the values of the session, where they tell.
FromWorker(w) ==
    /\ programInfo # undefined => programInfo = Some(ProgramInfoOf(w))
    /\ factCounts # undefined => factCounts = Some(FactCountsOf(w))
    /\ initializationDuration # 0 =>
            initializationDuration = StartInfoOf(w).initializationDuration
    /\ reasoningDuration # 0 =>
            reasoningDuration = StartInfoOf(w).reasoningDuration

\* C18: the fields of the session are consistent and from one run: factCounts
\* is set only if programInfo is set and a worker is held, and programInfo, the
\* durations and factCounts, where set, are results of the held worker, which
\* has not been stopped.
C18_SessionFromHeldWorker ==
    /\ factCounts # undefined => (programInfo # undefined /\ workerRef # undefined)
    /\ (programInfo # undefined \/ factCounts # undefined
            \/ initializationDuration # 0 \/ reasoningDuration # 0)
        => /\ workerRef # undefined
           /\ ~terminated[workerRef[1]]
           /\ FromWorker(workerRef[1])

\* C19: the answer to a trace request that was submitted to a worker which
\* is not the held one any more (stopProgram let it go, or a later run put its
\* own worker in its place) writes neither the tracing result nor the format.
C19_StaleTraceWritesNothing ==
    [][\A w \in Workers :
        (TraceAnswered(w) /\ workerRef # Some(w)) => UNCHANGED tracing]_vars

====
